---- MODULE Spec2Model ----
(***************************************************************************)
(* A model of loadConfig of @jungvonmatt/config-loader (src/src/index.ts). *)
(*                                                                         *)
(* One call of loadConfig is a linear pipeline that suspends at its        *)
(* collaborators (file discovery, file load, environment files, the        *)
(* option callbacks, the prompt).  The state is the call's local           *)
(* variables, the position in the pipeline (pc) and what the collaborators *)
(* have been asked.  Each action is one step of the pipeline; the          *)
(* collaborators' answers are drawn from small sets.  The layers list is   *)
(* that of the variant of loadConfig in src/unnamed/part_000, which runs   *)
(* the same pipeline and returns the layers it applied; a second call      *)
(* shares process.env with the first.                                      *)
(*                                                                         *)
(* Configuration values are tagged records [t, v]:                         *)
(*   undefined, number, array (a sequence of numbers), object (a function  *)
(*   from key strings to values).  A configuration object itself is such a *)
(*   function.                                                             *)
(***************************************************************************)
EXTENDS Integers, Sequences, FiniteSets, TLC

\* ------------------------------------------------------------------ bounds
\* Largest scalar of the flat configurations (0 is the falsy scalar).
MaxVal == 1
\* Longest `required` list and longest `prompts` array.
MaxLen == 2

\* ------------------------------------------------------------------ values
Undefined == [t |-> "undefined", v |-> 0]
Num(n) == [t |-> "number", v |-> n]
Str(s) == [t |-> "string", v |-> s]
Arr(s) == [t |-> "array", v |-> s]
Obj(m) == [t |-> "object", v |-> m]
KeyList(s) == [t |-> "keys", v |-> s]
PromptList(s) == [t |-> "prompts", v |-> s]
False == [t |-> "false", v |-> 0]
Function == [t |-> "function", v |-> 0]

EmptyObj == [k \in {} |-> Undefined]

isPlainObject(x) == x.t = "object"
isArray(x) == x.t \in {"array", "keys", "prompts"}
isDefined(x) == x.t # "undefined"

\* `x ?? {}` / the `!isPlainObject(defaults)` guard of defu: the object's map,
\* or the empty map when the argument is not an object.
asMap(x) == IF isPlainObject(x) THEN x.v ELSE EmptyObj

\* obj[k1][k2]...: the value of a tree at a path of any length (undefined where
\* there is none)
RECURSIVE valueAt(_, _)
valueAt(v, p) ==
    IF Len(p) = 0 THEN v
    ELSE IF isPlainObject(v) /\ Head(p) \in DOMAIN v.v
         THEN valueAt(v.v[Head(p)], Tail(p))
    ELSE Undefined

\* ------------------------------------------------------------------ defu
\* The merger handed to createDefu: when both sides are arrays it assigns the
\* incoming (higher-precedence) array and reports the key as handled.
mergerNever(objKey, value) == FALSE

mergerDistinct(objKey, value) ==
    isArray(objKey) /\ isArray(value) /\ objKey # value

merger(objKey, value) == isArray(objKey) /\ isArray(value)

\* `if (value === null || value === undefined) continue`
skippedFalsy(value) == value \in {Undefined, False, Num(0), Str("")}

skipped(value) == ~isDefined(value)

\* `isPlainObject(value) && isPlainObject(object[key])`: the merge recurses
mergeableNever(value, objKey) == FALSE

mergeable(value, objKey) == isPlainObject(value) /\ isPlainObject(objKey)

\* _defu(baseObject, defaults) of the defu library: a copy of `defaults` into
\* which every defined value of `baseObject` is written; two objects recurse,
\* two arrays go through the merger (else they are concatenated), anything
\* else is replaced by the value of `baseObject`.
RECURSIVE _defu(_, _)
_defu(baseObject, defaults) ==
    LET set == {k \in DOMAIN baseObject : ~skipped(baseObject[k])}
    IN  [k \in (DOMAIN defaults) \cup set |->
            IF k \notin set THEN defaults[k]
            ELSE IF k \notin DOMAIN defaults THEN baseObject[k]
            ELSE LET value == baseObject[k]
                     objKey == defaults[k]
                 IN  IF merger(objKey, value) THEN value
                     ELSE IF isArray(value) /\ isArray(objKey)
                          THEN Arr(value.v \o objKey.v)
                     ELSE IF mergeable(value, objKey)
                          THEN Obj(_defu(value.v, objKey.v))
                     ELSE value]

\* defu(...args): args.reduce((p, c) => _defu(p, c), {}), earlier arguments win.
RECURSIVE reduce(_, _)
reduce(p, args) ==
    IF Len(args) = 0 THEN p
    ELSE reduce(_defu(p, asMap(Head(args))), Tail(args))

defu(args) == reduce(EmptyObj, args)

\* step 3: defu({}, overrides, extraConfig.config, moduleConfig.config, defaultConfig)
mergeConfigModuleFirst(overrides, extra, module, defaults) ==
    defu(<<overrides, module, extra, defaults>>)

mergeConfig(overrides, extra, module, defaults) ==
    defu(<<overrides, extra, module, defaults>>)

\* step 4: defu({}, overrides, envConfig, _config)
mergeEnvConfigEnvFirst(overrides, env, merged) ==
    defu(<<Obj(env), overrides, Obj(merged)>>)

mergeEnvConfig(overrides, env, merged) ==
    defu(<<overrides, Obj(env), Obj(merged)>>)

\* the returned config: defu({}, response, config)
mergeResponseConfigFirst(answer, cfg) == defu(<<Obj(cfg), Obj(answer)>>)

mergeResponse(answer, cfg) == defu(<<Obj(answer), Obj(cfg)>>)

\* ------------------------------------------------------------------ environment
\* destr: best-effort parse of a raw environment string (undefined when the
\* variable is not set; a string that does not parse stays a string).
destr(raw) ==
    CASE raw = "undefined" -> Undefined
      [] raw = "0" -> Num(0)
      [] raw = "4" -> Num(4)
      [] raw = "7" -> Num(7)
      [] raw = "[4]" -> Arr(<<4>>)
      [] raw = "{\"x\":4}" -> Obj([x |-> Num(4)])
      [] raw = "{\"y\":4}" -> Obj([y |-> Num(4)])
      [] OTHER -> Str(raw)

\* process.env[name]
envVar(env, name) == IF name \in DOMAIN env THEN env[name] ELSE "undefined"

\* snakeCase(s).toUpperCase() on the identifiers of the model
snakeCaseUpper(s) ==
    CASE s = "a" -> "A"
      [] s = "b" -> "B"
      [] s = "c" -> "C"
      [] s = "x" -> "X"
      [] s = "y" -> "Y"
      [] s = "app" -> "APP"
      [] s = "myApp" -> "MY_APP"

\* getEnv(key, {prefix}): the coerced value of prefix + KEY, or undefined
getEnvNoPrefix(env, envKey, prefix) == destr(envVar(env, envKey))

getEnv(env, envKey, prefix) == destr(envVar(env, prefix \o envKey))

\* {...a, ...b}
spread(a, b) ==
    [k \in (DOMAIN a) \cup (DOMAIN b) |-> IF k \in DOMAIN b THEN b[k] ELSE a[k]]

\* An object from the environment over an object of the tree
mergeEnvObjectReplace(existing, envValue) == Obj(envValue.v)

mergeEnvObject(existing, envValue) == Obj(spread(existing.v, envValue.v))

\* applyEnv(obj, {prefix}, parentKey): the overlay of the environment on a tree
RECURSIVE applyEnv(_, _, _, _)
applyEnv(obj, env, prefix, parentKey) ==
    [k \in DOMAIN obj |->
        LET subKey == IF parentKey = "" THEN snakeCaseUpper(k)
                      ELSE parentKey \o "_" \o snakeCaseUpper(k)
            envValue == getEnv(env, subKey, prefix)
        IN  IF ~isDefined(envValue)
            THEN IF isPlainObject(obj[k])
                 THEN Obj(applyEnv(obj[k].v, env, prefix, subKey))
                 ELSE obj[k]
            ELSE IF isPlainObject(envValue) /\ isPlainObject(obj[k])
                 THEN mergeEnvObject(obj[k], envValue)
            ELSE envValue]

\* for (const [envKey, key] of Object.entries(envMap)) envConfig[key] = destr(...)
applyEnvMapKeepsOverlay(envConfig, env, envMap) ==
    LET set == {i \in 1..Len(envMap) : isDefined(destr(envVar(env, envMap[i][1])))}
        added == {envMap[i][2] : i \in set} \ DOMAIN envConfig
    IN  [k \in (DOMAIN envConfig) \cup added |->
            IF k \in DOMAIN envConfig THEN envConfig[k]
            ELSE LET i == CHOOSE j \in set : envMap[j][2] = k
                 IN  destr(envVar(env, envMap[i][1]))]

RECURSIVE applyEnvMap(_, _, _)
applyEnvMap(envConfig, env, envMap) ==
    IF Len(envMap) = 0 THEN envConfig
    ELSE LET envKey == Head(envMap)[1]
             key == Head(envMap)[2]
             value == destr(envVar(env, envKey))
         IN  applyEnvMap(IF isDefined(value)
                         THEN spread(envConfig, [k \in {key} |-> value])
                         ELSE envConfig,
                         env, Tail(envMap))

\* const envMap = options?.envMap ?? {}
envMapOf(opts) == IF "envMap" \in DOMAIN opts THEN opts.envMap ELSE <<>>

\* const dotenv = options?.dotenv ?? true
dotenvAlways(opts) == TRUE

dotenvOf(opts) == IF "dotenv" \in DOMAIN opts THEN opts.dotenv ELSE TRUE

\* const envName = options?.envName ?? process.env.NODE_ENV
envNameOf(opts, env) ==
    IF "envName" \in DOMAIN opts /\ opts.envName # Undefined THEN opts.envName
    ELSE IF "NODE_ENV" \in DOMAIN env THEN Str(env.NODE_ENV)
    ELSE Undefined

\* process.cwd()
processCwd == "/srv"

\* path.resolve(base, p) for a relative p
resolve(base, p) == IF p = "." THEN base ELSE base \o "/" \o p

\* const cwd = resolve(process.cwd(), options?.cwd || ".")
cwdOf(opts) ==
    resolve(processCwd, IF "cwd" \in DOMAIN opts /\ opts.cwd # "" THEN opts.cwd ELSE ".")

\* The truthiness of a value
truthy(v) == v \notin {Undefined, False, Num(0), Str("")}

\* const paths = envName ? [.env.${envName}, .env] : [.env], resolved under cwd
envPathsBaseFirst(cwd, envName) ==
    IF truthy(envName)
    THEN <<resolve(cwd, ".env"), resolve(cwd, ".env." \o envName.v)>>
    ELSE <<resolve(cwd, ".env")>>

envPaths(cwd, envName) ==
    IF truthy(envName)
    THEN <<resolve(cwd, ".env." \o envName.v), resolve(cwd, ".env")>>
    ELSE <<resolve(cwd, ".env")>>

\* dotenvx.config({path}): the variables of the files join process.env; a
\* variable the process already holds keeps its value
dotenvxConfig(env, files) == spread(files, env)

\* `${snakeCase(options.name).toUpperCase()}_CONFIG_`
envPrefix(name) == snakeCaseUpper(name) \o "_CONFIG_"

\* ------------------------------------------------------------------ prompts
\* Array.prototype.includes / filter / join / [...new Set(list)] on key lists
includes(list, key) == \E i \in 1..Len(list) : list[i] = key

RECURSIVE join(_, _)
join(list, sep) ==
    IF Len(list) = 0 THEN ""
    ELSE IF Len(list) = 1 THEN list[1]
    ELSE list[1] \o sep \o join(Tail(list), sep)

RECURSIVE unique(_)
unique(list) ==
    IF Len(list) = 0 THEN <<>>
    ELSE LET init == unique(SubSeq(list, 1, Len(list) - 1))
             last == list[Len(list)]
         IN  IF includes(init, last) THEN init ELSE Append(init, last)

\* The value of an optional list option as a list: `prompt || []`
orEmpty(x) == IF isArray(x) THEN x.v ELSE <<>>

\* required?.filter((key) => !keys.includes(key)) ?? []
missingTruthy(required, config) ==
    LET absent(key) == key \notin DOMAIN config
                       \/ config[key] \in {Undefined, Num(0)}
    IN  SelectSeq(orEmpty(required), absent)

missingOf(required, config) ==
    LET absent(key) == key \notin DOMAIN config
    IN  SelectSeq(orEmpty(required), absent)

\* prompts.findIndex((p) => p.name === name): 0-based, -1 when there is none
findIndex(prompts, name) ==
    IF \E i \in 1..Len(prompts) : prompts[i].name = name
    THEN (CHOOSE i \in 1..Len(prompts) :
            /\ prompts[i].name = name
            /\ \A j \in 1..(i - 1) : prompts[j].name # name) - 1
    ELSE -1

\* The synthesized descriptor of findPrompt
fallback(name) ==
    [name |-> name, type |-> "input",
     message |-> "Please specify value for \"" \o name \o "\""]

\* findPrompt(name): prompts.find((prompt) => prompt.name === name) || fallback
findPromptLast(prompts, name) ==
    IF isArray(prompts) /\ findIndex(prompts.v, name) # -1
    THEN LET P == prompts.v
         IN  P[CHOOSE i \in 1..Len(P) :
                 /\ P[i].name = name
                 /\ \A j \in (i + 1)..Len(P) : P[j].name # name]
    ELSE fallback(name)

findPrompt(prompts, name) ==
    IF isArray(prompts) /\ findIndex(prompts.v, name) # -1
    THEN prompts.v[findIndex(prompts.v, name) + 1]
    ELSE fallback(name)

\* The comparator handed to sort
compare(prompts, a, b) ==
    LET aIndex == findIndex(prompts, a)
        bIndex == findIndex(prompts, b)
    IN  IF aIndex = -1 THEN 1
        ELSE IF bIndex = -1 THEN -1
        ELSE aIndex - bIndex

\* The rearrangements of a list
permutations(list) ==
    LET n == Len(list)
        bij == {f \in [1..n -> 1..n] : \A i, j \in 1..n : f[i] = f[j] => i = j}
    IN  {[i \in 1..n |-> list[f[i]]] : f \in bij}

position(list, key) == CHOOSE i \in 1..Len(list) : list[i] = key

\* list.sort(compare).  Array.prototype.sort is a stable comparison sort whose
\* result is fixed only where the comparator is consistent: a pair on which
\* compare(a, b) and compare(b, a) agree that a comes after b is never left in
\* the order a, b; a pair the comparator calls equal keeps its order; a pair on
\* which the two calls contradict each other (both positive) may come out
\* either way, depending on which call the engine's algorithm makes
\* (ECMA-262: the order is implementation-defined).
sort(list, prompts) ==
    {order \in permutations(list) :
        \A i, j \in 1..Len(order) :
            i < j =>
                LET ab == compare(prompts, order[i], order[j])
                    ba == compare(prompts, order[j], order[i])
                IN  /\ ~(ab > 0 /\ ba < 0)
                    /\ (ab = 0 /\ ba = 0
                          => position(list, order[i]) < position(list, order[j]))}

\* [...new Set([...missing, ...(prompt || [])])]
combinedNoSet(missingKeys, promptOption) == missingKeys \o orEmpty(promptOption)

combinedPromptFirst(missingKeys, promptOption) ==
    unique(orEmpty(promptOption) \o missingKeys)

combined(missingKeys, promptOption) == unique(missingKeys \o orEmpty(promptOption))

\* promptKeys: the combined keys, sorted by the prompts array when there is one

promptKeysOf(missingKeys, promptOption, promptsOption) ==
    IF isArray(promptsOption)
    THEN sort(combined(missingKeys, promptOption), promptsOption.v)
    ELSE {combined(missingKeys, promptOption)}

\* promptKeys.map((key) => findPrompt(key))
mapFindPrompt(promptsOption, keys) ==
    [i \in 1..Len(keys) |-> findPrompt(promptsOption, keys[i])]

\* The message of load()'s error
notFoundMessage(filename) == "Config file " \o filename \o " not found"

\* The message of the validation error
validationMessage(missing) ==
    "Configuration validation failed: Required fields are missing ["
        \o join(missing, ", ")
        \o "]. TTY is not available for interactive prompts. Please provide these values via environment variables or configuration files."

\* ------------------------------------------------------------------ object identity
\* The caller-supplied layers, highest first, and an object the call created
LayerNames == <<"overrides", "extraConfig", "moduleConfig", "defaultConfig">>

Fresh == "fresh"

\* The paths of the plain objects of a tree, the root among them
RECURSIVE objectPaths(_)
objectPaths(v) ==
    IF ~isPlainObject(v) THEN {}
    ELSE {<<>>} \cup UNION {{<<k>> \o q : q \in objectPaths(v.v[k])} : k \in DOMAIN v.v}

\* _defu, by reference: the layers whose object at path p is merged into the
\* object the result holds at p.  Object.assign({}, defaults) copies the keys
\* of the lower layer, `object[key] = value` takes the value of the higher
\* one, and two plain objects are merged into a new one.
RECURSIVE parts(_, _)
parts(layers, p) ==
    IF Len(p) = 0 THEN {i \in 1..Len(layers) : isPlainObject(layers[i])}
    ELSE LET above == parts(layers, SubSeq(p, 1, Len(p) - 1))
             holding == {i \in above : isDefined(valueAt(layers[i], p))}
         IN  IF holding = {} THEN {}
             ELSE LET first == CHOOSE i \in holding : \A j \in holding : i <= j
                  IN  IF isPlainObject(valueAt(layers[first], p))
                      THEN {i \in holding : isPlainObject(valueAt(layers[i], p))}
                      ELSE {}

\* Whose object the merge holds at each path: the object of the one layer that
\* has an object there, or a new object (the root, and every merge of two)
owners(layers, merged) ==
    [p \in objectPaths(merged) |->
        IF Len(p) > 0 /\ Cardinality(parts(layers, p)) = 1
        THEN LayerNames[CHOOSE i \in parts(layers, p) : TRUE]
        ELSE Fresh]

\* klona(_config): a deep copy, every object of it new
klonaByReference(refs) == refs

klona(refs) == [p \in DOMAIN refs |-> Fresh]

\* applyEnv descends into the object at path p: no variable is set for the
\* keys on the way
reached(env, prefix, p) ==
    \A i \in 1..Len(p) :
        ~isDefined(getEnv(env, join([j \in 1..i |-> snakeCaseUpper(p[j])], "_"), prefix))

\* The assignments of the in-place overlay that land in an object of a layer
inPlace(refs, before, after, env, prefix) ==
    {[layer |-> refs[p], path |-> p, value |-> valueAt(Obj(after), p)] :
        p \in {q \in DOMAIN refs :
                  /\ refs[q] # Fresh
                  /\ reached(env, prefix, q)
                  /\ valueAt(Obj(after), q) # valueAt(Obj(before), q)}}

\* ------------------------------------------------------------------ layers
\* The layers c12 reports for a load: the overrides it was given, then the
\* config it found, each only when it holds a config
c12Layers(overrides, found) ==
    (IF truthy(overrides) THEN <<[config |-> overrides]>> ELSE <<>>)
        \o (IF truthy(found) THEN <<[config |-> found]>> ELSE <<>>)

\* layersWithType(layers, type): every layer, marked with the type
layersWithType(list, type) ==
    [i \in 1..Len(list) |-> [type |-> type, config |-> list[i].config]]

\* if (options.overrides) result.layers.push({ meta: { type: "overrides" }, ... })
pushOverridesFirst(list, overrides) ==
    IF truthy(overrides)
    THEN <<[type |-> "overrides", config |-> overrides]>> \o list
    ELSE list

pushOverrides(list, overrides) ==
    IF truthy(overrides)
    THEN Append(list, [type |-> "overrides", config |-> overrides])
    ELSE list

\* ------------------------------------------------------------------ state
VARIABLES
    options,         \* the argument of loadConfig
    hasTTY,          \* std-env's hasTTY
    processEnv,      \* process.env once the environment files are loaded
    paths,           \* the path list dotenvx.config() was called with
    envName,         \* the environment name read at the entry of the call
    aloneEnv,        \* process.env as the files of this call alone make it
    concurrent,      \* the position of a second, concurrent loadConfig call
    written,         \* the assignments made to objects of the caller's layers
    layers,          \* result.layers: the layers applied so far
    pc,              \* the position of the call in the pipeline
    moduleConfig,    \* the discovered module config (undefined: none found)
    extraConfig,     \* the config of the explicit config file
    _config,         \* step 3: the merge of overrides, file, module, defaults
    envConfig,       \* the environment layer
    config,          \* step 4: the pre-prompt config
    required,        \* the resolved `required` option
    prompt,          \* the resolved `prompt` option
    missing,         \* the required keys absent from config
    prompts,         \* the resolved `prompts` option
    promptKeys,      \* the ordered keys to prompt for
    missingPrompts,  \* the descriptors handed to the prompt
    response,        \* the answer of the prompt
    result,          \* the returned value: [config, missing]
    error,           \* the message of the rejection ("" while there is none)
    calls,           \* how often each collaborator and callback was invoked
    passed,          \* the argument each option callback was invoked with
    thrown           \* the error the prompt rejected with ("" while there is none)

vars == <<options, hasTTY, processEnv, paths, envName, aloneEnv, concurrent,
          written, layers, pc, moduleConfig, extraConfig, _config,
          envConfig, config, required, prompt, missing, prompts, promptKeys,
          missingPrompts, response, result, error, calls, passed, thrown>>

locals == <<moduleConfig, extraConfig, _config, envConfig, config, required,
            prompt, missing, prompts, promptKeys, missingPrompts, response,
            passed>>

NoCalls == [search |-> 0, load |-> 0, dotenv |-> 0, required |-> 0,
            prompt |-> 0, prompts |-> 0, promptFn |-> 0]

called(what) == calls' = [calls EXCEPT ![what] = @ + 1]

\* No option callback invoked yet
NotPassed == [required |-> Undefined, prompt |-> Undefined, prompts |-> Undefined]

\* options.required(config), options.prompt(config), options.prompts(config):
\* the callbacks are handed the pre-prompt config of step 4
callbackArgumentPreEnv(preEnv, cfg) == Obj(preEnv)

callbackArgument(preEnv, cfg) == Obj(cfg)

handed(what) ==
    passed' = [passed EXCEPT ![what] = callbackArgument(_config, config)]

\* dotenvx.config() not called
NoPaths == <<>>

\* The state at the entry of loadConfig, for a set of arguments, a terminal,
\* the environment the process was started with, and the positions of a
\* second call ("none": there is no second call)
InitCall(optionSet, ttySet, envSet, others) ==
    /\ options \in optionSet
    /\ hasTTY \in ttySet
    /\ processEnv \in envSet
    /\ paths = NoPaths
    /\ envName = envNameOf(options, processEnv)
    /\ aloneEnv = processEnv
    /\ concurrent \in others
    /\ written = {}
    /\ layers = <<>>
    /\ pc = "search"
    /\ moduleConfig = Undefined
    /\ extraConfig = Undefined
    /\ _config = EmptyObj
    /\ envConfig = EmptyObj
    /\ config = EmptyObj
    /\ required = Undefined
    /\ prompt = Undefined
    /\ missing = <<>>
    /\ prompts = Undefined
    /\ promptKeys = <<>>
    /\ missingPrompts = <<>>
    /\ response = EmptyObj
    /\ result = [config |-> EmptyObj, missing |-> <<>>]
    /\ error = ""
    /\ calls = NoCalls
    /\ passed = NotPassed
    /\ thrown = ""

\* The entry of a single loadConfig call
InitIn(optionSet, ttySet, envSet) == InitCall(optionSet, ttySet, envSet, {"none"})

\* The entry of loadConfig in a process started with an empty environment
InitWith(optionSet, ttySet) == InitIn(optionSet, ttySet, {EmptyObj})

\* ------------------------------------------------------------------ actions
\* 1: module config.  search() resolves to what the discovery finds.
Search(found) ==
    /\ pc = "search"
    /\ \E m \in found :
        /\ moduleConfig' = m
        /\ layers' = layersWithType(c12Layers(options.overrides, m), "module")
    /\ called("search")
    /\ pc' = "load"
    /\ UNCHANGED <<options, hasTTY, passed, thrown, processEnv, paths, envName,
                   aloneEnv, concurrent, written, extraConfig, _config, envConfig,
                   config, required, prompt, missing, prompts, promptKeys,
                   missingPrompts, response, result, error>>

\* 2: no configFile option: extraConfig is {}
NoConfigFile ==
    /\ pc = "load"
    /\ options.configFile = ""
    /\ extraConfig' = Undefined
    /\ pc' = "merge"
    /\ UNCHANGED <<options, hasTTY, passed, thrown, processEnv, paths, envName,
                   aloneEnv, concurrent, written, moduleConfig, _config, envConfig,
                   config, required, prompt, missing, prompts, promptKeys,
                   missingPrompts, response, result, error, calls>>
    /\ UNCHANGED layers

\* 2: load(): the file exists and the loader returns its config
Load(loaded) ==
    /\ pc = "load"
    /\ options.configFile # ""
    /\ \E f \in loaded :
        /\ extraConfig' = f
        /\ layers' = layers \o layersWithType(c12Layers(Undefined, f), "file")
    /\ called("load")
    /\ pc' = "merge"
    /\ UNCHANGED <<options, hasTTY, passed, thrown, processEnv, paths, envName,
                   aloneEnv, concurrent, written, moduleConfig, _config, envConfig,
                   config, required, prompt, missing, prompts, promptKeys,
                   missingPrompts, response, result, error>>

\* 2: load(): fs.existsSync(filename) is false
LoadNotFoundIgnored ==
    /\ pc = "load"
    /\ options.configFile # ""
    /\ extraConfig' = Undefined
    /\ called("load")
    /\ pc' = "merge"
    /\ UNCHANGED <<options, hasTTY, thrown, processEnv, paths, envName,
                   aloneEnv, concurrent, written, moduleConfig, _config,
                   envConfig, config, required, prompt, missing, prompts,
                   promptKeys, missingPrompts, response, result, error, passed>>
    /\ UNCHANGED layers

LoadNotFound ==
    /\ pc = "load"
    /\ options.configFile # ""
    /\ error' = notFoundMessage(options.configFile)
    /\ called("load")
    /\ pc' = "failed"
    /\ UNCHANGED <<options, hasTTY, thrown, processEnv, paths, envName,
                   aloneEnv, concurrent, written, result>>
    /\ UNCHANGED locals
    /\ UNCHANGED layers

\* 3: merge config
Merge ==
    /\ pc = "merge"
    /\ _config' = mergeConfig(options.overrides, extraConfig, moduleConfig,
                              options.defaultConfig)
    /\ pc' = IF dotenvOf(options) THEN "env" ELSE "config"
    /\ UNCHANGED <<options, hasTTY, passed, thrown, processEnv, paths, envName,
                   aloneEnv, concurrent, written, moduleConfig, extraConfig,
                   envConfig, config, required, prompt, missing, prompts,
                   promptKeys, missingPrompts, response, result, error, calls>>
    /\ UNCHANGED layers

\* load environment config: dotenvx.config(), applyEnv on a copy, then envMap
LoadEnv(environments) ==
    /\ pc = "env"
    /\ paths' = envPaths(cwdOf(options), envName)
    /\ \E env \in environments :
        LET loaded == dotenvxConfig(processEnv, env)
        IN  /\ processEnv' = loaded
            /\ aloneEnv' = dotenvxConfig(aloneEnv, env)
            /\ written' = written \cup
                   inPlace(klona(owners(<<options.overrides, extraConfig,
                                          moduleConfig, options.defaultConfig>>,
                                        Obj(_config))),
                           _config,
                           applyEnv(_config, loaded, envPrefix(options.name), ""),
                           loaded, envPrefix(options.name))
            /\ envConfig' = applyEnvMap(
                                applyEnv(_config, loaded, envPrefix(options.name), ""),
                                loaded, envMapOf(options))
    /\ layers' = Append(layers, [type |-> "env", config |-> Obj(envConfig')])
    /\ called("dotenv")
    /\ pc' = "config"
    /\ UNCHANGED <<options, hasTTY, envName, concurrent, passed, thrown,
                   moduleConfig, extraConfig, _config, config,
                   required, prompt, missing, prompts, promptKeys,
                   missingPrompts, response, result, error>>

\* A second loadConfig call, for another name, is suspended before its
\* environment stage and resumes: its dotenvx.config() loads the environment
\* files of that call into process.env
ConcurrentLoadEnv(environments) ==
    /\ concurrent = "env"
    /\ pc \notin {"done", "failed"}
    /\ \E env \in environments : processEnv' = dotenvxConfig(processEnv, env)
    /\ concurrent' = "config"
    /\ UNCHANGED <<options, hasTTY, paths, envName, aloneEnv, written, pc, result,
                   error, calls, thrown>>
    /\ UNCHANGED locals
    /\ UNCHANGED layers

\* 4: make sure overrides are preferred over envConfig
MergeEnv ==
    /\ pc = "config"
    /\ layers' = pushOverrides(layers, options.overrides)
    /\ config' = mergeEnvConfig(options.overrides, envConfig, _config)
    /\ pc' = "required"
    /\ UNCHANGED <<options, hasTTY, passed, thrown, processEnv, paths, envName,
                   aloneEnv, concurrent, written, moduleConfig, extraConfig,
                   _config, envConfig, required, prompt, missing, prompts,
                   promptKeys, missingPrompts, response, result, error, calls>>

\* `required`: the static list, or what the function returns for config
ResolveRequired(returned) ==
    /\ pc = "required"
    /\ IF options.required = Function
       THEN /\ \E list \in returned : required' = KeyList(list)
            /\ called("required")
            /\ handed("required")
       ELSE /\ required' = options.required
            /\ UNCHANGED <<calls, passed>>
    /\ pc' = "prompt"
    /\ UNCHANGED <<options, hasTTY, thrown, processEnv, paths, envName,
                   aloneEnv, concurrent, written, moduleConfig, extraConfig,
                   _config, envConfig, config, prompt, missing, prompts,
                   promptKeys, missingPrompts, response, result, error>>
    /\ UNCHANGED layers

\* `prompt`: the static list, or what the function returns for config
ResolvePrompt(returned) ==
    /\ pc = "prompt"
    /\ IF options.prompt = Function
       THEN /\ \E list \in returned : prompt' = KeyList(list)
            /\ called("prompt")
            /\ handed("prompt")
       ELSE /\ prompt' = options.prompt
            /\ UNCHANGED <<calls, passed>>
    /\ pc' = "check"
    /\ UNCHANGED <<options, hasTTY, thrown, processEnv, paths, envName,
                   aloneEnv, concurrent, written, moduleConfig, extraConfig,
                   _config, envConfig, config, required, missing, prompts,
                   promptKeys, missingPrompts, response, result, error>>
    /\ UNCHANGED layers

\* return { config: defu({}, response, config), filepath, isEmpty, missing }
promptResultNoneMissing(answer, cfg, missingKeys) ==
    [config |-> mergeResponse(answer, cfg), missing |-> <<>>]

promptResult(answer, cfg, missingKeys) ==
    [config |-> mergeResponse(answer, cfg), missing |-> missingKeys]

\* return { config, filepath, isEmpty, missing: [] }
plainResult(cfg) == [config |-> cfg, missing |-> <<>>]

\* 5: Array.isArray(required) || Array.isArray(prompt), and then
\*    missing.length > 0 || prompt?.length
needsPromptAlways(req, pro, cfg) == isArray(req) \/ isArray(pro)

needsPromptMissingOnly(req, pro, cfg) ==
    /\ isArray(req) \/ isArray(pro)
    /\ Len(missingOf(req, cfg)) > 0

needsPrompt(req, pro, cfg) ==
    /\ isArray(req) \/ isArray(pro)
    /\ Len(missingOf(req, cfg)) > 0 \/ Len(orEmpty(pro)) > 0

\* !hasTTY || options.prompts === false
gateClosedTTYOnly(tty, promptsOption) == ~tty

gateClosed(tty, promptsOption) == ~tty \/ promptsOption = False

\* nothing to prompt for: return { config, missing: [] }
ReturnConfig ==
    /\ pc = "check"
    /\ ~needsPrompt(required, prompt, config)
    /\ result' = plainResult(config)
    /\ pc' = "done"
    /\ UNCHANGED <<options, hasTTY, thrown, processEnv, paths, envName,
                   aloneEnv, concurrent, written, error, calls>>
    /\ UNCHANGED locals
    /\ UNCHANGED layers

\* the interactivity gate: throw the validation error
ThrowValidationLate ==
    /\ pc = "check"
    /\ needsPrompt(required, prompt, config)
    /\ gateClosed(hasTTY, options.prompts)
    /\ missing' = missingOf(required, config)
    /\ IF options.prompts = Function
       THEN /\ prompts' = Undefined
            /\ called("prompts")
            /\ handed("prompts")
       ELSE UNCHANGED <<prompts, calls, passed>>
    /\ error' = validationMessage(missingOf(required, config))
    /\ pc' = "failed"
    /\ UNCHANGED <<options, hasTTY, thrown, processEnv, paths, envName, aloneEnv,
                   concurrent, written, moduleConfig, extraConfig, _config,
                   envConfig, config, required, prompt, promptKeys,
                   missingPrompts, response, result>>
    /\ UNCHANGED layers

ThrowValidation ==
    /\ pc = "check"
    /\ needsPrompt(required, prompt, config)
    /\ gateClosed(hasTTY, options.prompts)
    /\ missing' = missingOf(required, config)
    /\ error' = validationMessage(missingOf(required, config))
    /\ pc' = "failed"
    /\ UNCHANGED <<options, hasTTY, passed, thrown, processEnv, paths, envName,
                   aloneEnv, concurrent, written, moduleConfig, extraConfig,
                   _config, envConfig, config, required, prompt, prompts,
                   promptKeys, missingPrompts, response, result, calls>>
    /\ UNCHANGED layers

\* past the gate: `prompts` is the static array, or what the function returns
ResolvePrompts(returned) ==
    /\ pc = "check"
    /\ needsPrompt(required, prompt, config)
    /\ ~gateClosed(hasTTY, options.prompts)
    /\ missing' = missingOf(required, config)
    /\ IF options.prompts = Function
       THEN /\ \E p \in returned : prompts' = p
            /\ called("prompts")
            /\ handed("prompts")
       ELSE /\ prompts' = options.prompts
            /\ UNCHANGED <<calls, passed>>
    /\ pc' = "sort"
    /\ UNCHANGED <<options, hasTTY, thrown, processEnv, paths, envName,
                   aloneEnv, concurrent, written, moduleConfig, extraConfig,
                   _config, envConfig, config, required, prompt, promptKeys,
                   missingPrompts, response, result, error>>
    /\ UNCHANGED layers

\* promptKeys and missingPrompts
BuildPrompts ==
    /\ pc = "sort"
    /\ \E order \in promptKeysOf(missing, prompt, prompts) :
        /\ promptKeys' = order
        /\ missingPrompts' = mapFindPrompt(prompts, order)
    /\ pc' = "ask"
    /\ UNCHANGED <<options, hasTTY, passed, thrown, processEnv, paths, envName,
                   aloneEnv, concurrent, written, moduleConfig, extraConfig,
                   _config, envConfig, config, required, prompt, missing,
                   prompts, response, result, error, calls>>
    /\ UNCHANGED layers

\* The answers a prompt for `keys` can resolve to: every key answered alike
answersFor(keys, values) ==
    {[k \in {keys[i] : i \in 1..Len(keys)} |-> v] : v \in values}

\* promptFn(missingPrompts) resolves: return the response merged over config
Prompt(values) ==
    /\ pc = "ask"
    /\ \E r \in answersFor(promptKeys, values) :
        /\ response' = r
        /\ result' = promptResult(r, config, missing)
        /\ layers' = Append(layers, [type |-> "prompt", config |-> Obj(r)])
    /\ called("promptFn")
    /\ pc' = "done"
    /\ UNCHANGED <<options, hasTTY, passed, thrown, processEnv, paths, envName,
                   aloneEnv, concurrent, written, moduleConfig, extraConfig,
                   _config, envConfig, config, required, prompt, missing,
                   prompts, promptKeys, missingPrompts, error>>

\* promptFn(missingPrompts) rejects (a failure, or the user cancels)
PromptFailPartial(failures) ==
    /\ pc = "ask"
    /\ \E e \in failures : thrown' = e
    /\ result' = [config |-> config, missing |-> missing]
    /\ called("promptFn")
    /\ pc' = "done"
    /\ UNCHANGED <<options, hasTTY, processEnv, paths, envName,
                   aloneEnv, concurrent, written, error>>
    /\ UNCHANGED locals
    /\ UNCHANGED layers

PromptFail(failures) ==
    /\ pc = "ask"
    /\ \E e \in failures :
        /\ thrown' = e
        /\ error' = e
    /\ called("promptFn")
    /\ pc' = "failed"
    /\ UNCHANGED <<options, hasTTY, processEnv, paths, envName,
                   aloneEnv, concurrent, written, result>>
    /\ UNCHANGED locals
    /\ UNCHANGED layers

\* The steps of loadConfig over a domain of collaborator answers
NextWith(dom) ==
    \/ Search(dom.found)
    \/ NoConfigFile
    \/ Load(dom.loaded)
    \/ LoadNotFound
    \/ Merge
    \/ LoadEnv(dom.environments)
    \/ MergeEnv
    \/ ResolveRequired(dom.required)
    \/ ResolvePrompt(dom.prompt)
    \/ ReturnConfig
    \/ ThrowValidation
    \/ ResolvePrompts(dom.prompts)
    \/ BuildPrompts
    \/ Prompt(dom.answers)
    \/ PromptFail(dom.failures)

\* ------------------------------------------------------------------ inputs
Keys == {"a", "b", "c"}

\* The lists over a set of keys, up to a length
Lists(keys, n) == UNION {[1..m -> keys] : m \in 0..n}

\* The flat objects over a set of keys with scalar values
FlatObjs(keys, vals) ==
    UNION {[ks -> {Num(v) : v \in vals}] : ks \in SUBSET keys}

\* A prompts array naming `names`: entries differ in type, so that two entries
\* of the same name can be told apart
descriptorsOf(names) ==
    [i \in 1..Len(names) |->
        [name |-> names[i],
         type |-> IF i = 1 THEN "password" ELSE "confirm",
         message |-> "Enter " \o names[i]]]

\* Prompt flow: flat layers from three sources (a from the defaults, b from
\* the config file, c from the environment through envMap), every shape of
\* required, prompt and prompts.
PromptOptionSet ==
    [name : {"app"},
     overrides : {Undefined},
     defaultConfig : {Obj(m) : m \in FlatObjs({"a"}, 0..MaxVal)},
     configFile : {"", "app.config.json"},
     dotenv : BOOLEAN,
     envMap : {<< <<"MY_C", "c">> >>},
     required : {Undefined, Function}
                  \cup {KeyList(l) : l \in Lists(Keys, MaxLen)},
     prompt : {Undefined, Function}
                  \cup {KeyList(l) : l \in Lists(Keys, 1)},
     prompts : {Undefined, False, Function}
                  \cup {PromptList(descriptorsOf(l)) : l \in Lists(Keys, MaxLen)}]

PromptDomain ==
    [found |-> {Undefined},
     loaded |-> {Obj([b |-> Num(MaxVal)])},
     environments |-> {[MY_C |-> "0"]},
     required |-> {<<>>, <<"b">>},
     prompt |-> {<<"c">>},
     prompts |-> {Undefined, PromptList(<<>>), PromptList(descriptorsOf(<<"c">>))},
     answers |-> {Num(6)},
     failures |-> {"User cancelled", "Prompt failed"}]

Init == InitWith(PromptOptionSet, BOOLEAN)

Next == NextWith(PromptDomain)

Spec == Init /\ [][Next]_vars

\* Layer flow: every source holds key a in one of six shapes (absent,
\* undefined, scalar, array, object with x, object with y) and writes its own
\* marker as the scalar: 1 defaults, 2 module, 3 file, 4 environment,
\* 5 overrides, 6 prompt response.
LayerShapes(v) ==
    {EmptyObj,
     [a |-> Undefined],
     [a |-> Num(v)],
     [a |-> Arr(<<v>>)],
     [a |-> Obj([x |-> Num(v)])],
     [a |-> Obj([y |-> Num(v)])]}

\* required / prompt / prompts as used together: a forced prompt for a, a
\* required a with prompts disabled, and all three as functions
LayerProfiles ==
    {[required |-> Undefined, prompt |-> KeyList(<<"a">>), prompts |-> Undefined],
     [required |-> KeyList(<<"a">>), prompt |-> Undefined, prompts |-> False],
     [required |-> Function, prompt |-> Function, prompts |-> Function]}

LayerOptionSet ==
    {[name |-> "app",
      overrides |-> o,
      defaultConfig |-> d,
      configFile |-> f,
      dotenv |-> e,
      envMap |-> << <<"MY_A", "a">> >>,
      required |-> p.required,
      prompt |-> p.prompt,
      prompts |-> p.prompts] :
        o \in {Undefined} \cup {Obj(m) : m \in LayerShapes(5) \ {EmptyObj}},
        d \in {Obj(m) : m \in LayerShapes(1)},
        f \in {"", "app.config.json"},
        e \in BOOLEAN,
        p \in LayerProfiles}

LayerDomain ==
    [found |-> {Undefined} \cup {Obj(m) : m \in LayerShapes(2)},
     loaded |-> {Obj(m) : m \in LayerShapes(3)},
     environments |-> {EmptyObj,
                       [APP_CONFIG_A |-> "4"],
                       [APP_CONFIG_A |-> "[4]"],
                       [APP_CONFIG_A |-> "{\"x\":4}"],
                       [APP_CONFIG_A_X |-> "4"],
                       [APP_CONFIG_A_Y |-> "4"],
                       [MY_A |-> "4"],
                       [MY_A |-> "{\"y\":4}"]},
     required |-> {<<"a">>},
     prompt |-> {<<>>, <<"a">>},
     prompts |-> {Undefined},
     answers |-> {Num(6), Arr(<<6>>), Obj([x |-> Num(6)]), Obj([y |-> Num(6)])},
     failures |-> {"User cancelled"}]

InitLayers == InitWith(LayerOptionSet, {TRUE})

NextLayers == NextWith(LayerDomain)

SpecLayers == InitLayers /\ [][NextLayers]_vars

\* Merge flow: two layers, overrides over defaultConfig, hold key a as one of
\* the trees below; the scalars and sequences of a layer carry its marker.
Repeated(m, n) == [i \in 1..n |-> m]

\* undefined, the falsy scalars, a scalar, and the sequences up to MaxLen
Leaves(m) ==
    {Undefined, False, Num(0), Str(""), Num(m)}
        \cup {Arr(Repeated(m, n)) : n \in 0..MaxLen}

\* The objects two levels below a: x and y hold undefined, a scalar or a sequence
InnerObjs(m) ==
    UNION {[ks -> {Undefined, Num(m), Arr(<<m>>)}] : ks \in SUBSET {"x", "y"}}

\* The objects below a: x holds a leaf or an inner object, y a leaf
MiddleObjs(m) ==
    UNION {{f \in [ks -> Leaves(m) \cup {Obj(t) : t \in InnerObjs(m)}] :
               "y" \in ks => f["y"] \in Leaves(m)} : ks \in SUBSET {"x", "y"}}

\* The layers: a is absent, a leaf or an object
Trees(m) ==
    {EmptyObj} \cup {[a |-> v] : v \in Leaves(m) \cup {Obj(t) : t \in MiddleObjs(m)}}

\* Two layers and nothing else
twoLayerOptions(o, d) ==
    [name |-> "app",
     overrides |-> Obj(o),
     defaultConfig |-> Obj(d),
     configFile |-> "",
     dotenv |-> FALSE,
     envMap |-> <<>>,
     required |-> Undefined,
     prompt |-> Undefined,
     prompts |-> Undefined]

\* Any two layers, a layer over itself, and two calls that go through the
\* config file, the environment and the prompt
MergeOptionSet ==
    {twoLayerOptions(o, d) : o \in Trees(5), d \in Trees(1)}
        \cup {twoLayerOptions(d, d) : d \in Trees(1)}
        \cup {[name |-> "app",
                overrides |-> Undefined,
                defaultConfig |-> Obj([a |-> Obj([x |-> Num(1)])]),
                configFile |-> "app.config.json",
                dotenv |-> TRUE,
                envMap |-> <<>>,
                required |-> KeyList(<<"b">>),
                prompt |-> Undefined,
                prompts |-> p] : p \in {Undefined, False}}

MergeDomain ==
    [found |-> {Undefined},
     loaded |-> {Obj([a |-> Obj([y |-> Num(3)])])},
     environments |-> {[APP_CONFIG_A_X |-> "4"]},
     required |-> {<<>>},
     prompt |-> {<<>>},
     prompts |-> {Undefined},
     answers |-> {Num(6)},
     failures |-> {"User cancelled"}]

InitMerge == InitWith(MergeOptionSet, {TRUE})

NextMerge == NextWith(MergeDomain)

SpecMerge == InitMerge /\ [][NextMerge]_vars

\* Environment flow: defaultConfig holds key a as one of the trees and key b
\* as a scalar; the environment files set one or two variables.
envOptions(d, e) ==
    [name |-> "app",
     overrides |-> Undefined,
     defaultConfig |-> Obj(d),
     configFile |-> "",
     dotenv |-> e,
     envMap |-> << <<"MY_B", "b">> >>,
     required |-> Undefined,
     prompt |-> Undefined,
     prompts |-> Undefined]

EnvOptionSet ==
    {envOptions(spread(t, [b |-> Num(1)]), e) : t \in Trees(1), e \in BOOLEAN}
        \cup {[name |-> "app",
                overrides |-> Undefined,
                defaultConfig |-> Obj([a |-> Obj([x |-> Num(1)])]),
                configFile |-> "app.config.json",
                dotenv |-> TRUE,
                envMap |-> <<>>,
                required |-> KeyList(<<"c">>),
                prompt |-> Undefined,
                prompts |-> p] : p \in {Undefined, False}}

EnvDomain ==
    [found |-> {Undefined},
     loaded |-> {Obj([a |-> Obj([y |-> Num(3)])])},
     environments |-> {EmptyObj,
                       [APP_CONFIG_A |-> "4"],
                       [APP_CONFIG_A |-> "[4]"],
                       [APP_CONFIG_A |-> "{\"x\":4}"],
                       [APP_CONFIG_A |-> "plain"],
                       [APP_CONFIG_A_X |-> "4"],
                       [APP_CONFIG_A_X |-> "{\"y\":4}"],
                       [APP_CONFIG_A_Y |-> "0"],
                       [APP_CONFIG_A_X_Y |-> "4"],
                       [APP_CONFIG_A_X_X |-> "[4]"],
                       [APP_CONFIG_B |-> "7"],
                       [MY_B |-> "7"],
                       [APP_CONFIG_A_X |-> "4", APP_CONFIG_A_Y |-> "7"]},
     required |-> {<<>>},
     prompt |-> {<<>>},
     prompts |-> {Undefined},
     answers |-> {Num(6)},
     failures |-> {"User cancelled"}]

InitEnv == InitWith(EnvOptionSet, {TRUE})

NextEnv == NextWith(EnvDomain)

SpecEnv == InitEnv /\ [][NextEnv]_vars

\* Environment-stage flow: the process starts with an environment of its own,
\* the options choose dotenv, envName, cwd, envMap and overrides, and the
\* environment files add variables.
dotenvOptions(o, e, m, n, c) ==
    [name |-> "app",
     overrides |-> o,
     defaultConfig |-> Obj([a |-> Obj([x |-> Num(1)]), b |-> Num(1)]),
     configFile |-> "",
     dotenv |-> e,
     envMap |-> m,
     envName |-> n,
     cwd |-> c,
     required |-> Undefined,
     prompt |-> Undefined,
     prompts |-> Undefined]

DotenvOptionSet ==
    {dotenvOptions(o, e, m, n, c) :
        o \in {Undefined, Obj([b |-> Num(9)])},
        e \in BOOLEAN,
        m \in {<< <<"MY_B", "b">> >>, << <<"MY_B", "b">>, <<"MY_C", "c">> >>},
        n \in {Undefined, False, Str(""), Str("production")},
        c \in {"", "sub"}}
        \cup {[name |-> "app",
                overrides |-> Undefined,
                defaultConfig |-> Obj([b |-> Num(1)]),
                configFile |-> "app.config.json",
                required |-> KeyList(<<"c">>),
                prompt |-> Undefined,
                prompts |-> p] : p \in {Undefined, False}}

\* The environment of the process before loadConfig is called
DotenvProcessEnvs ==
    {EmptyObj,
     [NODE_ENV |-> "test"],
     [NODE_ENV |-> ""],
     [MY_B |-> "7"],
     [MY_B |-> "undefined"],
     [APP_CONFIG_B |-> "4"],
     [APP_CONFIG_B |-> "4", MY_B |-> "[4]"],
     [APP_CONFIG_A_X |-> "7", MY_C |-> "plain"]}

DotenvDomain ==
    [found |-> {Undefined},
     loaded |-> {Obj([a |-> Obj([y |-> Num(3)])])},
     environments |-> {EmptyObj,
                       [MY_B |-> "4"],
                       [APP_CONFIG_B |-> "7"],
                       [MY_C |-> "{\"x\":4}"],
                       [NODE_ENV |-> "staging"]},
     required |-> {<<>>},
     prompt |-> {<<>>},
     prompts |-> {Undefined},
     answers |-> {Num(6), Undefined},
     failures |-> {"User cancelled"}]

InitDotenv == InitIn(DotenvOptionSet, {TRUE}, DotenvProcessEnvs)

NextDotenv == NextWith(DotenvDomain)

SpecDotenv == InitDotenv /\ [][NextDotenv]_vars

\* Two-call flow: loadConfig({ name: "app" }) runs while a second call, for
\* another name and with environment files of its own, is suspended before
\* its environment stage.
ConcurrentOptionSet ==
    {dotenvOptions(Undefined, e, << <<"MY_B", "b">> >>, n, "") :
        e \in BOOLEAN, n \in {Undefined, False}}
        \cup {[name |-> "app",
                overrides |-> Undefined,
                defaultConfig |-> Obj([b |-> Num(1)]),
                configFile |-> "app.config.json",
                required |-> KeyList(<<"c">>),
                prompt |-> Undefined,
                prompts |-> p] : p \in {Undefined, False}}

ConcurrentProcessEnvs == {EmptyObj, [MY_B |-> "7"], [NODE_ENV |-> "test"]}

\* The environment files of the second call
ConcurrentFiles ==
    {EmptyObj,
     [MY_B |-> "[4]"],
     [APP_CONFIG_B |-> "7"],
     [OTHER_CONFIG_B |-> "7"],
     [NODE_ENV |-> "staging"]}

ConcurrentDomain ==
    [found |-> {Undefined},
     loaded |-> {Obj([a |-> Obj([y |-> Num(3)])])},
     environments |-> {EmptyObj, [MY_B |-> "4"]},
     required |-> {<<>>},
     prompt |-> {<<>>},
     prompts |-> {Undefined},
     answers |-> {Num(6)},
     failures |-> {"User cancelled"}]

InitConcurrent ==
    InitCall(ConcurrentOptionSet, {TRUE}, ConcurrentProcessEnvs, {"env"})

NextConcurrent ==
    \/ NextWith(ConcurrentDomain)
    \/ ConcurrentLoadEnv(ConcurrentFiles)

SpecConcurrent == InitConcurrent /\ [][NextConcurrent]_vars

\* ------------------------------------------------------------------ layers
SubKeys == {"x", "y"}

\* The paths of the model's trees: a key, or a key and a key below it
Paths == {<<k>> : k \in Keys} \cup {<<k, j>> : k \in Keys, j \in SubKeys}

\* The value of a tree at a path (undefined where there is none)
at(m, p) ==
    IF p[1] \notin DOMAIN m THEN Undefined
    ELSE IF Len(p) = 1 THEN m[p[1]]
    ELSE IF isPlainObject(m[p[1]]) /\ p[2] \in DOMAIN m[p[1]].v
         THEN m[p[1]].v[p[2]]
    ELSE Undefined

\* A leaf: a defined value that is not an object (a scalar or a sequence)
isLeaf(v) == isDefined(v) /\ ~isPlainObject(v)

\* The environment layer proper: what the environment put at a path, where
\* that differs from the merged files and defaults it was laid over
envAt(p) ==
    IF at(envConfig, p) # at(_config, p) THEN at(envConfig, p) ELSE Undefined

\* The layers' values at a path, highest rank first: prompt response,
\* overrides, environment, explicit file, module config, defaults
ranked(p) ==
    <<at(response, p),
      at(asMap(options.overrides), p),
      envAt(p),
      at(asMap(extraConfig), p),
      at(asMap(moduleConfig), p),
      at(asMap(options.defaultConfig), p)>>

\* The value of the highest-ranked layer that defines the path
RECURSIVE firstDefined(_)
firstDefined(values) ==
    IF Len(values) = 0 THEN Undefined
    ELSE IF isDefined(Head(values)) THEN Head(values)
    ELSE firstDefined(Tail(values))

prompted == calls.promptFn = 1 /\ pc = "done"

configReady == pc \in {"required", "prompt", "check", "sort", "ask", "done"}

ended == pc \in {"done", "failed"} /\ error # notFoundMessage(options.configFile)

\* The keys of a list
keysOf(list) == {list[i] : i \in 1..Len(list)}

\* The positions of the resolved required list whose key is no key of config
absentAt == {i \in 1..Len(orEmpty(required)) : orEmpty(required)[i] \notin DOMAIN config}

\* The list of the required keys at those positions, in the order of the list
absentRequired ==
    [n \in 1..Cardinality(absentAt) |->
        orEmpty(required)[CHOOSE i \in absentAt :
                              Cardinality({j \in absentAt : j <= i}) = n]]

\* The combined set: the absent required keys and the keys of `prompt`
combinedSet == keysOf(absentRequired) \cup keysOf(orEmpty(prompt))

\* Prompting is permitted: a terminal is there and prompts is not false
permitted == hasTTY /\ options.prompts # False

\* C4: the missing list is the required keys that are no top-level key of the
\* pre-prompt config, in the order of the required list; a required key with
\* a falsy value is present: it is not reported missing, and it is prompted
\* for only if `prompt` names it.
C4_Missing ==
    /\ pc \in {"sort", "ask"} => missing = absentRequired
    /\ ended => missing = absentRequired
    /\ pc = "done" => result.missing = absentRequired
    /\ pc \in {"sort", "ask", "done"} =>
        \A k \in keysOf(orEmpty(required)) :
            k \in DOMAIN config /\ config[k] = Num(0) =>
                /\ ~includes(missing, k)
                /\ ~includes(result.missing, k)
                /\ ~includes(orEmpty(prompt), k) => ~includes(promptKeys, k)

\* C4 witness: a required with a falsy value, b required and absent, and the
\* prompt was called for b alone
C4_Witness ==
    /\ prompted
    /\ orEmpty(required) = <<"a", "b">>
    /\ at(config, <<"a">>) = Num(0)
    /\ result.missing = <<"b">>
    /\ promptKeys = <<"b">>

C6_ValidationError ==
    ended /\ Len(absentRequired) > 0 /\ ~permitted =>
        /\ pc = "failed"
        /\ error = "Configuration validation failed: Required fields are missing ["
                     \o join(absentRequired, ", ")
                     \o "]. TTY is not available for interactive prompts. Please provide these values via environment variables or configuration files."
        /\ calls.promptFn = 0

\* C6 witness: two keys missing, a terminal is there but prompts is false
C6_Witness ==
    /\ pc = "failed"
    /\ hasTTY
    /\ options.prompts = False
    /\ Len(missing) = 2
    /\ missing[1] # missing[2]

\* C7: with no required key missing and a non-empty `prompt` list, the call
\* does not fail at the interactivity gate when prompts are disabled or no
\* terminal is there: it goes on to the prompt call.
C7_PromptOnlyPassesGate ==
    ended /\ Len(absentRequired) = 0 /\ Len(orEmpty(prompt)) > 0 /\ ~permitted =>
        /\ error # validationMessage(<<>>)
        /\ calls.promptFn = 1

\* The order C8 states: the combined keys the array names, in the array's
\* order, then the others in the order of the combined list
namedFirst(list, P) ==
    LET named == SelectSeq(unique([i \in 1..Len(P) |-> P[i].name]),
                           LAMBDA k : includes(list, k))
        rest == SelectSeq(list, LAMBDA k : findIndex(P, k) = -1)
    IN  named \o rest

C9_Descriptor ==
    pc \in {"ask", "done", "failed"} /\ Len(promptKeys) > 0 =>
        /\ Len(missingPrompts) = Len(promptKeys)
        /\ \A i \in 1..Len(promptKeys) :
            LET key == promptKeys[i]
                P == IF prompts.t = "prompts" THEN prompts.v ELSE <<>>
                hits == {j \in 1..Len(P) : P[j].name = key}
            IN  IF hits # {}
                THEN missingPrompts[i] = P[CHOOSE j \in hits : \A h \in hits : j <= h]
                ELSE missingPrompts[i] =
                        [name |-> key, type |-> "input",
                         message |-> "Please specify value for \"" \o key \o "\""]

\* C9 witness: the array names a twice, a and one more key are prompted for
C9_Witness ==
    /\ pc = "ask"
    /\ prompts.t = "prompts"
    /\ Len(prompts.v) = 2
    /\ prompts.v[1].name = "a"
    /\ prompts.v[2].name = "a"
    /\ includes(promptKeys, "a")
    /\ Len(promptKeys) = 2

\* C10: the list handed to the prompt has exactly one descriptor for each key
\* of the union of missing and the `prompt` keys: once for a key in both, also
\* for a `prompt` key that has a value, never for a key only the prompts array
\* names.
C10_OnePerKey ==
    pc \in {"ask", "done"} /\ Len(promptKeys) > 0 =>
        /\ {missingPrompts[i].name : i \in 1..Len(missingPrompts)} = combinedSet
        /\ Len(missingPrompts) = Cardinality(combinedSet)

\* C10 witness: c is missing and in `prompt`, a is missing, and the prompts
\* array names b, which is not asked for
C10_Witness ==
    /\ pc = "ask"
    /\ includes(missing, "c")
    /\ includes(orEmpty(prompt), "c")
    /\ includes(missing, "a")
    /\ prompts.t = "prompts"
    /\ \E j \in 1..Len(prompts.v) : prompts.v[j].name = "b"
    /\ keysOf(promptKeys) = {"a", "c"}

\* ------------------------------------------------------------------ result
\* C11: the missing field of a returned result is the list of the required
\* keys that were absent from the pre-prompt config: it holds no key that only
\* `prompt` names, it keeps the keys the prompt has filled, and it is empty
\* when there is no required list or every required key is present.
C11_MissingField ==
    pc = "done" =>
        /\ result.missing = absentRequired
        /\ \A k \in keysOf(orEmpty(prompt)) :
            k \in DOMAIN config => ~includes(result.missing, k)
        /\ \A k \in keysOf(orEmpty(required)) :
            k \notin DOMAIN config =>
                /\ includes(result.missing, k)
                /\ prompted => k \in DOMAIN result.config
        /\ (~isArray(required)
              \/ \A k \in keysOf(orEmpty(required)) : k \in DOMAIN config)
            => result.missing = <<>>

\* C11 witness: the prompt has filled the missing key b and the prompt-only
\* key c; the result lists b alone
C11_Witness ==
    /\ prompted
    /\ result.missing = <<"b">>
    /\ keysOf(promptKeys) = {"b", "c"}
    /\ "b" \notin DOMAIN config
    /\ "c" \in DOMAIN config
    /\ {"b", "c"} \subseteq DOMAIN result.config

\* ------------------------------------------------------------------ callbacks
\* The call is past the resolution of `required` / of `prompt`
resolved(what) ==
    \/ pc \in {"check", "sort", "ask", "done"}
    \/ pc = "prompt" /\ what = "required"
    \/ ended

\* C12: a `required` or `prompt` function is invoked exactly once in a call,
\* with the pre-prompt config in which defaults, module config, file,
\* environment and overrides are merged, and never again once the prompt
\* response is merged; a static list is never invoked.
C12_CallbackOnce ==
    \A what \in {"required", "prompt"} :
        /\ calls[what] <= 1
        /\ options[what] # Function => calls[what] = 0
        /\ ~resolved(what) => calls[what] = 0
        /\ options[what] = Function /\ resolved(what) =>
            /\ calls[what] = 1
            /\ passed[what] = Obj(config)
            /\ \A p \in Paths :
                isLeaf(at(passed[what].v, p))
                    => at(passed[what].v, p) = firstDefined(Tail(ranked(p)))

\* C12 witness: both are functions, overrides, environment, file, module
\* config and defaults all define a, the environment has changed the config
\* the functions were handed, and the prompt response has changed it since
C12_Witness ==
    /\ prompted
    /\ options.required = Function
    /\ options.prompt = Function
    /\ calls.required = 1
    /\ calls.prompt = 1
    /\ \A i \in 2..6 : \E p \in Paths : isDefined(ranked(p)[i])
    /\ passed.required = passed.prompt
    /\ passed.required # Obj(_config)
    /\ passed.required # Obj(result.config)

\* ------------------------------------------------------------------ failures
\* Nothing has been returned
noResult == result = [config |-> EmptyObj, missing |-> <<>>]

\* load() was called and gave no config: the file does not exist
fileNotFound == calls.load = 1 /\ extraConfig = Undefined

\* C13: with a configFile that does not exist the call rejects at once with
\* "Config file <name> not found": nothing is merged or returned, and neither
\* the environment files nor the prompt (nor any option callback) is invoked.
C13_ConfigFileNotFound ==
    /\ fileNotFound =>
        /\ pc = "failed"
        /\ error = "Config file " \o options.configFile \o " not found"
    /\ error = "Config file " \o options.configFile \o " not found" =>
        /\ pc = "failed"
        /\ fileNotFound
        /\ noResult
        /\ _config = EmptyObj /\ envConfig = EmptyObj /\ config = EmptyObj
        /\ calls.dotenv = 0
        /\ calls.promptFn = 0
        /\ calls.required = 0 /\ calls.prompt = 0 /\ calls.prompts = 0

\* C13 witness: the file is not there in a call that would otherwise load the
\* environment files and prompt for two required keys
C13_Witness ==
    /\ pc = "failed"
    /\ fileNotFound
    /\ options.dotenv
    /\ hasTTY
    /\ options.prompts = Undefined
    /\ options.required = KeyList(<<"b", "c">>)

\* C14: when the prompt rejects, the call rejects with that very error, and
\* nothing is returned; a call ends either with a result, in which all of the
\* pre-prompt config and, after a prompt, the response are merged, or with an
\* error and no result.
C14_PromptError ==
    /\ thrown # "" =>
        /\ pc = "failed"
        /\ calls.promptFn = 1
        /\ error = thrown
        /\ noResult
    /\ pc = "failed" => error # "" /\ noResult
    /\ pc # "done" => noResult
    /\ pc = "done" =>
        /\ error = ""
        /\ thrown = ""
        /\ DOMAIN result.config = (DOMAIN config) \cup (DOMAIN response)
        /\ calls.promptFn = 0 => result.config = config

\* C14 witness: the user cancels a prompt for two keys
C14_Witness ==
    /\ pc = "failed"
    /\ thrown = "User cancelled"
    /\ error = "User cancelled"
    /\ Len(missingPrompts) = 2
    /\ calls.promptFn = 1

\* ------------------------------------------------------------------ merge
\* The paths of the merge flow's trees, the root among them
MergePaths ==
    {<<>>, <<"a">>}
        \cup {<<"a", j>> : j \in SubKeys}
        \cup {<<"a", j, k>> : j \in SubKeys, k \in SubKeys}

\* The call merges two layers and nothing else: overrides over defaultConfig
twoLayers ==
    /\ isPlainObject(options.overrides)
    /\ options.configFile = ""
    /\ ~options.dotenv
    /\ moduleConfig = Undefined

\* The merges the call has made so far: step 3, step 4 and the returned config
mergedNow ==
    (IF pc \notin {"search", "load", "merge", "failed"} THEN {Obj(_config)} ELSE {})
        \cup (IF configReady THEN {Obj(config)} ELSE {})
        \cup (IF pc = "done" THEN {Obj(result.config)} ELSE {})

\* C15: where both layers hold a sequence at the same path, at any depth, the
\* merge holds exactly the sequence of the higher layer: nothing of the lower
\* layer's sequence is appended to it or merged into it.
C15_ArraysReplace ==
    twoLayers =>
        \A r \in mergedNow, p \in MergePaths :
            /\ valueAt(options.overrides, p).t = "array"
            /\ valueAt(options.defaultConfig, p).t = "array"
            => valueAt(r, p) = valueAt(options.overrides, p)

\* C15 witness: sequences of different lengths meet one and two levels deep
C15_Witness ==
    /\ pc = "done"
    /\ twoLayers
    /\ valueAt(options.overrides, <<"a", "y">>) = Arr(<<5>>)
    /\ valueAt(options.defaultConfig, <<"a", "y">>) = Arr(<<1, 1>>)
    /\ valueAt(options.overrides, <<"a", "x", "x">>) = Arr(<<5>>)
    /\ valueAt(options.defaultConfig, <<"a", "x", "x">>) = Arr(<<1>>)
    /\ valueAt(Obj(result.config), <<"a", "y">>) = Arr(<<5>>)
    /\ valueAt(Obj(result.config), <<"a", "x", "x">>) = Arr(<<5>>)

\* The path without its last key, and that key
parent(p) == SubSeq(p, 1, Len(p) - 1)

last(p) == p[Len(p)]

\* The higher layer holds the key of path p with the value undefined
heldUndefined(layer, p) ==
    /\ Len(p) > 0
    /\ isPlainObject(valueAt(layer, parent(p)))
    /\ last(p) \in DOMAIN valueAt(layer, parent(p)).v
    /\ valueAt(layer, p) = Undefined

\* C16: a key the higher layer holds as undefined keeps the defined value of
\* the lower layer; a key the higher layer holds as false, 0 or "" has the
\* higher layer's value, whatever the lower layer holds.
C16_UndefinedKeepsLower ==
    twoLayers =>
        \A r \in mergedNow, p \in MergePaths :
            /\ heldUndefined(options.overrides, p)
                  /\ valueAt(options.defaultConfig, p) # Undefined
                => valueAt(r, p) = valueAt(options.defaultConfig, p)
            /\ valueAt(options.overrides, p) \in {False, Num(0), Str("")}
                => valueAt(r, p) = valueAt(options.overrides, p)

\* C16 witness: overrides holds a.x as undefined and a.y as 0 over scalars of
\* the defaults
C16_Witness ==
    /\ pc = "done"
    /\ twoLayers
    /\ heldUndefined(options.overrides, <<"a", "x">>)
    /\ valueAt(options.overrides, <<"a", "y">>) = Num(0)
    /\ valueAt(options.defaultConfig, <<"a", "x">>) = Num(1)
    /\ valueAt(options.defaultConfig, <<"a", "y">>) = Num(1)
    /\ valueAt(Obj(result.config), <<"a", "x">>) = Num(1)
    /\ valueAt(Obj(result.config), <<"a", "y">>) = Num(0)

\* The keys an object defines: those with a value other than undefined
definedKeys(obj) == {k \in DOMAIN obj.v : obj.v[k] # Undefined}

RECURSIVE hasArray(_)
hasArray(v) ==
    \/ v.t = "array"
    \/ isPlainObject(v) /\ \E k \in DOMAIN v.v : hasArray(v.v[k])

\* C18: merging a layer with itself, as the earlier and as the later
\* argument, yields the layer unchanged, for every object without sequences
\* (and, with the merger of this defu, for the objects with sequences too).
C18_Idempotent ==
    twoLayers /\ options.overrides = options.defaultConfig =>
        \A r \in mergedNow :
            /\ ~hasArray(options.overrides) => r = options.overrides
            /\ r = options.overrides

\* C18 witness: a layer without sequences, three levels deep, with a falsy
\* value and an undefined one, merged with itself
C18_Witness ==
    /\ pc = "done"
    /\ twoLayers
    /\ options.overrides = options.defaultConfig
    /\ ~hasArray(options.overrides)
    /\ valueAt(options.overrides, <<"a", "x", "x">>) = Num(1)
    /\ heldUndefined(options.overrides, <<"a", "x", "y">>)
    /\ valueAt(options.overrides, <<"a", "y">>) = Num(0)
    /\ Obj(result.config) = options.overrides

\* ------------------------------------------------------------------ environment
\* The paths of the environment flow's trees
EnvPaths == (MergePaths \ {<<>>}) \cup {<<"b">>}

\* The variable of a path: the prefix and the path's keys in upper snake case
variableOf(p) ==
    "APP_CONFIG_" \o join([i \in 1..Len(p) |-> snakeCaseUpper(p[i])], "_")

\* One path is the start of the other (or they are the same)
related(p, q) ==
    \A i \in 1..(IF Len(p) < Len(q) THEN Len(p) ELSE Len(q)) : p[i] = q[i]

\* The tree holds the key of path p, whatever its value
holdsKey(tree, p) ==
    /\ isPlainObject(valueAt(tree, parent(p)))
    /\ last(p) \in DOMAIN valueAt(tree, parent(p)).v

\* The environment files are loaded and the overlay has run on the merge of
\* step 3
overlaid == calls.dotenv = 1 /\ options.name = "app"

\* A variable is set for the path, for a path above it or for a path below
\* it, or the envMap variable of its key is set
touched(q) ==
    \/ \E r \in EnvPaths : related(r, q) /\ variableOf(r) \in DOMAIN processEnv
    \/ \E i \in 1..Len(options.envMap) :
          /\ options.envMap[i][2] = q[1]
          /\ options.envMap[i][1] \in DOMAIN processEnv

\* C19: with the variable of a nested path set, and none for the keys above
\* it, the overlay changes that leaf alone: the leaf has the coerced value of
\* the variable, every sibling and every other key for which no variable is
\* set keeps its value, and no key is added.
C19_EnvNestedLeaf ==
    overlaid =>
        \A p \in EnvPaths :
            /\ Len(p) >= 2
            /\ variableOf(p) \in DOMAIN processEnv
            /\ \A q \in EnvPaths :
                  Len(q) < Len(p) /\ related(p, q)
                      => variableOf(q) \notin DOMAIN processEnv
            /\ holdsKey(Obj(_config), p)
            /\ ~isPlainObject(valueAt(Obj(_config), p))
            => /\ valueAt(Obj(envConfig), p) = destr(processEnv[variableOf(p)])
               /\ \A q \in EnvPaths :
                    ~touched(q)
                        => valueAt(Obj(envConfig), q) = valueAt(Obj(_config), q)
               /\ \A q \in EnvPaths :
                    Len(q) < Len(p) /\ related(p, q)
                        => DOMAIN valueAt(Obj(envConfig), q).v
                              = DOMAIN valueAt(Obj(_config), q).v
               /\ DOMAIN envConfig = DOMAIN _config

\* C19 witness: APP_CONFIG_A_X_Y is set; a.x.y has its value, and a.x.x, a.y
\* and b are as they were
C19_Witness ==
    /\ pc = "done"
    /\ processEnv = [APP_CONFIG_A_X_Y |-> "4"]
    /\ _config = [a |-> Obj([x |-> Obj([x |-> Num(1), y |-> Num(1)]),
                             y |-> Arr(<<1>>)]),
                  b |-> Num(1)]
    /\ envConfig = [a |-> Obj([x |-> Obj([x |-> Num(1), y |-> Num(4)]),
                               y |-> Arr(<<1>>)]),
                    b |-> Num(1)]
    /\ result.config = envConfig

\* C20: with the variable of a key set whose value in the tree is an object:
\* an object value of the variable is merged into that object, its keys
\* winning and the keys only the tree holds kept; any other value of the
\* variable replaces the object as a whole.
C20_EnvObject ==
    overlaid =>
        \A p \in EnvPaths :
            /\ DOMAIN processEnv = {variableOf(p)}
            /\ isPlainObject(valueAt(Obj(_config), p))
            => LET old == valueAt(Obj(_config), p)
                   new == valueAt(Obj(envConfig), p)
                   envValue == destr(processEnv[variableOf(p)])
               IN  IF isPlainObject(envValue)
                   THEN /\ isPlainObject(new)
                        /\ DOMAIN new.v = (DOMAIN old.v) \cup (DOMAIN envValue.v)
                        /\ \A k \in DOMAIN envValue.v : new.v[k] = envValue.v[k]
                        /\ \A k \in (DOMAIN old.v) \ (DOMAIN envValue.v) :
                              new.v[k] = old.v[k]
                   ELSE new = envValue

\* C20 witness: APP_CONFIG_A = {"x":4} is merged into a, which holds x and y
C20_Witness ==
    /\ pc = "done"
    /\ processEnv = [APP_CONFIG_A |-> "{\"x\":4}"]
    /\ _config = [a |-> Obj([x |-> Obj([x |-> Num(1)]), y |-> Num(1)]),
                  b |-> Num(1)]
    /\ envConfig = [a |-> Obj([x |-> Num(4), y |-> Num(1)]), b |-> Num(1)]

\* ------------------------------------------------------------------ environment stage
\* The environment stage has run in the environment-stage flow
staged == calls.dotenv = 1 /\ "envName" \in DOMAIN options

\* What the {NAME}_CONFIG_ prefix overlay alone makes of the merge of step 3
overlayOnly == applyEnv(_config, processEnv, envPrefix(options.name), "")

\* The variable of an envMap entry holds a value that coerces to a defined one
mapped(entry) ==
    /\ entry[1] \in DOMAIN processEnv
    /\ isDefined(destr(processEnv[entry[1]]))

C22_DotenvFalse ==
    "dotenv" \in DOMAIN options /\ options.dotenv = FALSE
        => /\ calls.dotenv = 0
           /\ paths = NoPaths
           /\ envConfig = EmptyObj
           /\ configReady
                => /\ config = _config
                   /\ config = mergeConfig(options.overrides, extraConfig,
                                           moduleConfig, options.defaultConfig)
                   /\ \A p \in {<<"a", "x">>, <<"b">>} :
                          at(config, p)
                              = firstDefined(<<at(asMap(options.overrides), p),
                                               at(asMap(options.defaultConfig), p)>>)

\* C22 witness: the process holds APP_CONFIG_B and MY_B, envMap maps MY_B to
\* b, and loadConfig returns the b of defaultConfig
C22_Witness ==
    /\ pc = "done"
    /\ "envName" \in DOMAIN options
    /\ options.dotenv = FALSE
    /\ processEnv = [APP_CONFIG_B |-> "4", MY_B |-> "[4]"]
    /\ options.envMap[1] = <<"MY_B", "b">>
    /\ options.overrides = Undefined
    /\ result.config.b = Num(1)

\* The directory the environment files are looked up in
envDir == IF options.cwd = "" THEN "/srv" ELSE "/srv/" \o options.cwd

aloneConfig ==
    mergeEnvConfig(options.overrides,
                   IF dotenvOf(options)
                   THEN applyEnvMap(applyEnv(_config, aloneEnv,
                                             envPrefix(options.name), ""),
                                    aloneEnv, envMapOf(options))
                   ELSE EmptyObj,
                   _config)

\* C24: a loadConfig call that runs concurrently with a call for another
\* configuration name, interleaved at the suspension points, returns the
\* config it returns when run alone.
C24_Independent ==
    pc = "done" /\ "envName" \in DOMAIN options => result.config = aloneConfig

\* ------------------------------------------------------------------ caller's objects
\* The layers the caller supplied, highest first
supplied == <<options.overrides, extraConfig, moduleConfig, options.defaultConfig>>

\* C25: loadConfig assigns to no object of overrides, defaultConfig, the loaded
\* file or the module config: the merges build new objects, and the in-place
\* overlay of the environment runs on a deep copy of the merge of step 3, also
\* where that merge holds an object of a layer itself.
C25_NoMutation == written = {}

\* C25 witness: the merge of step 3 holds the object a of defaultConfig itself,
\* APP_CONFIG_A_X = 4 makes the overlay assign x in its copy, and defaultConfig
\* still holds x = 1
C25_Witness ==
    /\ pc = "done"
    /\ calls.dotenv = 1
    /\ processEnv = [APP_CONFIG_A_X |-> "4"]
    /\ options.defaultConfig = Obj([a |-> Obj([x |-> Num(1)]), b |-> Num(1)])
    /\ owners(supplied, Obj(_config))[<<"a">>] = "defaultConfig"
    /\ reached(processEnv, envPrefix(options.name), <<"a">>)
    /\ envConfig.a = Obj([x |-> Num(4)])
    /\ valueAt(options.defaultConfig, <<"a", "x">>) = Num(1)
    /\ written = {}

\* ------------------------------------------------------------------ gate
\* The call failed at the interactivity gate: it rejected, and neither the
\* config file nor the prompt was the cause
failedAtGate ==
    /\ pc = "failed"
    /\ thrown = ""
    /\ error # notFoundMessage(options.configFile)

\* C26: the gate comes before the prompt list: a call that fails at the gate
\* has neither evaluated the `prompts` function nor called the prompt; a call
\* evaluates the `prompts` function at most once, only with a terminal and
\* prompts not disabled, with the pre-prompt config, and before the one call
\* of the prompt.
C26_GateFirst ==
    /\ failedAtGate
        => /\ calls.prompts = 0
           /\ calls.promptFn = 0
           /\ passed.prompts = Undefined
    /\ calls.prompts <= 1
    /\ calls.promptFn <= 1
    /\ calls.prompts = 1
        => /\ options.prompts = Function
           /\ hasTTY
           /\ passed.prompts = Obj(config)
           /\ pc \in {"sort", "ask", "done", "failed"}
    /\ calls.promptFn = 1 /\ options.prompts = Function => calls.prompts = 1
    /\ pc \in {"search", "load", "merge", "env", "config", "required", "prompt",
               "check", "sort"}
        => calls.promptFn = 0

\* C26 witness: no terminal, `prompts` is a function and a key is missing: the
\* call fails at the gate without evaluating the function
C26_Witness ==
    /\ failedAtGate
    /\ ~hasTTY
    /\ options.prompts = Function
    /\ Len(missing) > 0
    /\ calls.prompts = 0

\* ------------------------------------------------------------------ order without prompts
\* The keys in line: the absent required keys, then the keys of `prompt`
inLine == absentRequired \o orEmpty(prompt)

\* The first position of a key in a list
firstAt(list, k) ==
    CHOOSE i \in 1..Len(list) : list[i] = k /\ \A j \in 1..(i - 1) : list[j] # k

\* The prompt list is built
built == pc = "ask" \/ calls.promptFn = 1

typesOf(list) == [i \in 1..Len(list) |-> list[i].type]

\* How many layers of a type the list holds
countOf(list, type) == Cardinality({i \in 1..Len(list) : list[i].type = type})

\* The place of a type in the order of application
placeOf(type) ==
    CASE type = "module" -> 1
      [] type = "file" -> 2
      [] type = "env" -> 3
      [] type = "overrides" -> 4
      [] type = "prompt" -> 5

\* C28: the returned layers list holds the module layers, then the layers of
\* the explicit file, then one env layer exactly when dotenv is enabled, then
\* one overrides layer exactly when overrides was supplied, then one prompt
\* layer exactly when the prompt was called.
C28_LayersOrder ==
    pc = "done"
        => /\ \A i, j \in 1..Len(layers) :
                  i < j => placeOf(layers[i].type) <= placeOf(layers[j].type)
           /\ countOf(layers, "env") = IF options.dotenv THEN 1 ELSE 0
           /\ countOf(layers, "overrides")
                  = IF options.overrides # Undefined THEN 1 ELSE 0
           /\ countOf(layers, "prompt") = IF calls.promptFn = 1 THEN 1 ELSE 0
           /\ countOf(layers, "file") > 0 => options.configFile # ""

\* C28 witness: two module layers, the file, env, overrides and prompt
C28_Witness ==
    /\ pc = "done"
    /\ typesOf(layers)
           = <<"module", "module", "file", "env", "overrides", "prompt">>
    /\ layers[5].config = options.overrides
    /\ layers[6].config = Obj(response)

\* ------------------------------------------------------------------ required keys
\* C29: when loadConfig returns, with or without a prompt and whatever the
\* prompt answered, every key of the required list is a key of the returned
\* config.
C29_RequiredPresent ==
    pc = "done" => \A k \in keysOf(orEmpty(required)) : k \in DOMAIN result.config

====
